---- MODULE Spec2Model ----
(***************************************************************************)
(* Early x86_64 bring-up of the rux kernel: the boot memory-map builder    *)
(* (bootstrap_archinfo), the bring-up sequencer (kinit) and the segment    *)
(* selector / descriptor encoders.                                         *)
(*                                                                         *)
(* Conventions.  Option<T> is a set with at most one element: None is {}   *)
(* and Some(x) is {x}.  A MemoryRegion is a record [base, length].  A      *)
(* machine word handled bit by bit (u16 selector, u32 base and limit, u64  *)
(* descriptor) is the set of the positions of its one bits, so that OR is  *)
(* union, AND is intersection and a shift moves the positions and drops    *)
(* what leaves the word.                                                   *)
(***************************************************************************)
EXTENDS Integers, Sequences, FiniteSets, TLC

VARIABLES
    boot,          \* firmware and linker input: kernel span, first module, memory map
    pc,            \* position of kinit
    idx,           \* position of the memory_regions() iterator (1-based)
    archinfo,      \* Option<InitInfo>: None before InitInfo::new
    alloc_region,  \* Option<MemoryRegion>: the allocation arena
    panic,         \* why the boot halted ("none" while it runs)
    ret_archinfo,  \* Option<InitInfo>: the InitInfo bootstrap_archinfo returned
    kmain_arg,     \* Option<InitInfo>: the value handed to kmain
    call,          \* a call of a pure operation (selector, descriptor, skip_up)
    result         \* Option of what that call returned

bootVars == <<boot, pc, idx, archinfo, alloc_region, panic, ret_archinfo, kmain_arg>>
vars == <<boot, pc, idx, archinfo, alloc_region, panic, ret_archinfo, kmain_arg,
          call, result>>

(***************************************************************************)
(* Bounds of the model.                                                    *)
(***************************************************************************)
\* Highest physical address of the small memory maps (addresses 0..MaxAddr).
MaxAddr == 4
\* Longest small memory map.
MaxMapLen == 2
\* Most RAM entries beside the kernel's in the large memory maps.
MaxFreeEntries == 17

(***************************************************************************)
(* Option and MemoryRegion.                                                *)
(***************************************************************************)
None == {}
Some(x) == {x}
Unwrap(o) == CHOOSE x \in o : TRUE

Min(a, b) == IF a <= b THEN a ELSE b

MemoryRegionNew(base, length) == [base |-> base, length |-> length]

\* The addresses a region carries; none when its length is 0.
Addrs(r) == r.base .. (r.base + r.length - 1)

\* A plausible slip: the exclusion must start strictly below the region.
skip_up_strict(self, exclusion) ==
    IF /\ self.length > 0
       /\ exclusion.length > 0
       /\ exclusion.base < self.base
       /\ exclusion.base + exclusion.length > self.base
    THEN LET top == exclusion.base + exclusion.length
             overlap == Min(top, self.base + self.length) - self.base
         IN  [ret |-> TRUE,
              self |-> [base |-> top, length |-> self.length - overlap]]
    ELSE [ret |-> FALSE, self |-> self]

\* MemoryRegion::skip_up (subtract-from-bottom).  When the exclusion covers
\* a prefix of self, self is advanced to exclusion.end + 1 and shrunk by the
\* overlap, and true is returned; otherwise self is unchanged and false is
\* returned.  An exclusion reaching past self.end leaves length 0.
skip_up(self, exclusion) ==
    IF /\ self.length > 0
       /\ exclusion.length > 0
       /\ exclusion.base <= self.base
       /\ exclusion.base + exclusion.length > self.base
    THEN LET top == exclusion.base + exclusion.length
             overlap == Min(top, self.base + self.length) - self.base
         IN  [ret |-> TRUE,
              self |-> [base |-> top, length |-> self.length - overlap]]
    ELSE [ret |-> FALSE, self |-> self]

(***************************************************************************)
(* InitInfo.                                                               *)
(***************************************************************************)
\* Number of slots of InitInfo.free_regions.
FREE_REGIONS_LEN == 16

Slots == 0 .. (FREE_REGIONS_LEN - 1)

InitInfoNew(kernel_region, rinit_region) ==
    [free_regions_size |-> 0,
     free_regions |-> [s \in Slots |-> None],
     kernel_region |-> kernel_region,
     rinit_region |-> rinit_region]

\* A plausible slip: unchecked indexing that wraps around the table.
push_free_region_unchecked(self, region) ==
    [panic |-> FALSE,
     self |-> [self EXCEPT
                 !.free_regions[self.free_regions_size % FREE_REGIONS_LEN] = Some(region),
                 !.free_regions_size = @ + 1]]

\* A plausible slip: the count is not advanced, so the slot is overwritten.
push_free_region_nocount(self, region) ==
    IF self.free_regions_size \in Slots
    THEN [panic |-> FALSE,
          self |-> [self EXCEPT !.free_regions[self.free_regions_size] = Some(region)]]
    ELSE [panic |-> TRUE, self |-> self]

\* InitInfo::push_free_region.  Indexing the array is bounds-checked: an
\* index outside the table panics before anything is written.
push_free_region(self, region) ==
    IF self.free_regions_size \in Slots
    THEN [panic |-> FALSE,
          self |-> [self EXCEPT
                      !.free_regions[self.free_regions_size] = Some(region),
                      !.free_regions_size = @ + 1]]
    ELSE [panic |-> TRUE, self |-> self]

\* FreeRegionsIterator: walks the slots from 0 and stops at the end of the
\* table or at the first unpopulated slot.
RECURSIVE IterFrom(_, _)
IterFrom(slots, s) ==
    IF s \notin Slots THEN <<>>
    ELSE IF slots[s] = None THEN <<>>
    ELSE <<Unwrap(slots[s])>> \o IterFrom(slots, s + 1)

free_regions_iter(self) == IterFrom(self.free_regions, 0)

(***************************************************************************)
(* bootstrap_archinfo.                                                     *)
(***************************************************************************)
\* A plausible slip: the rinit image is not carved out of the arena.
bootstrap_area_no_rinit(info, alloc, area) ==
    IF area.type # "RAM"
    THEN [panic |-> "none", info |-> info, alloc |-> alloc]
    ELSE LET cur_region == MemoryRegionNew(area.base, area.length)
             k == skip_up(cur_region, info.kernel_region)
         IN  IF k.ret
             THEN [panic |-> "none", info |-> info, alloc |-> Some(k.self)]
             ELSE LET p == push_free_region(info, cur_region)
                  IN  [panic |-> IF p.panic THEN "bounds" ELSE "none",
                       info |-> p.self, alloc |-> alloc]

\* A plausible slip: a failed rinit subtraction is ignored instead of asserted.
bootstrap_area_no_assert(info, alloc, area) ==
    IF area.type # "RAM"
    THEN [panic |-> "none", info |-> info, alloc |-> alloc]
    ELSE LET cur_region == MemoryRegionNew(area.base, area.length)
             k == skip_up(cur_region, info.kernel_region)
         IN  IF k.ret
             THEN [panic |-> "none", info |-> info,
                   alloc |-> Some(skip_up(k.self, info.rinit_region).self)]
             ELSE LET p == push_free_region(info, cur_region)
                  IN  [panic |-> IF p.panic THEN "bounds" ELSE "none",
                       info |-> p.self, alloc |-> alloc]

\* The body of the loop over the memory map, for one entry.
bootstrap_area(info, alloc, area) ==
    IF area.type # "RAM"
    THEN [panic |-> "none", info |-> info, alloc |-> alloc]
    ELSE LET cur_region == MemoryRegionNew(area.base, area.length)
             k == skip_up(cur_region, info.kernel_region)
         IN  IF k.ret
             THEN LET r == skip_up(k.self, info.rinit_region)
                  IN  IF r.ret
                      THEN [panic |-> "none", info |-> info, alloc |-> Some(r.self)]
                      ELSE [panic |-> "assert", info |-> info, alloc |-> alloc]
             ELSE LET p == push_free_region(info, cur_region)
                  IN  [panic |-> IF p.panic THEN "bounds" ELSE "none",
                       info |-> p.self, alloc |-> alloc]

\* kinit enters bootstrap_archinfo: the InitInfo is built from the kernel's
\* linked span and the first module, and the arena starts as None.
BootstrapEnter ==
    /\ pc = "Start"
    /\ archinfo' = Some(InitInfoNew(
            MemoryRegionNew(boot.kernel_start, boot.kernel_end + 1 - boot.kernel_start),
            MemoryRegionNew(boot.module_start, boot.module_end + 1 - boot.module_start)))
    /\ alloc_region' = None
    /\ idx' = 1
    /\ pc' = "Loop"
    /\ UNCHANGED <<boot, panic, ret_archinfo, kmain_arg, call, result>>

\* One turn of the loop over bootinfo.memory_regions().
BootstrapLoop ==
    /\ pc = "Loop"
    /\ idx <= Len(boot.map)
    /\ LET step == bootstrap_area(Unwrap(archinfo), alloc_region, boot.map[idx])
       IN  IF step.panic # "none"
           THEN /\ pc' = "Halted"
                /\ panic' = step.panic
                /\ UNCHANGED <<idx, archinfo, alloc_region>>
           ELSE /\ archinfo' = Some(step.info)
                /\ alloc_region' = step.alloc
                /\ idx' = idx + 1
                /\ UNCHANGED <<pc, panic>>
    /\ UNCHANGED <<boot, ret_archinfo, kmain_arg, call, result>>

\* The loop is over: alloc_region.unwrap() panics on None, and otherwise
\* the pair is returned to kinit.
BootstrapReturn ==
    /\ pc = "Loop"
    /\ idx > Len(boot.map)
    /\ IF alloc_region = None
       THEN /\ pc' = "Halted"
            /\ panic' = "unwrap"
            /\ UNCHANGED ret_archinfo
       ELSE /\ pc' = "TopologyBuilt"
            /\ ret_archinfo' = archinfo
            /\ UNCHANGED panic
    /\ UNCHANGED <<boot, idx, archinfo, alloc_region, kmain_arg, call, result>>

(***************************************************************************)
(* kinit after bootstrap_archinfo.                                         *)
(***************************************************************************)
\* What paging::init may take from the bottom of the arena: nothing, a few
\* bytes or pages, or all of it.
PagingUse(arena) ==
    {k \in {0, 1, arena.length} \cup {n * 2^12 : n \in 1..2} : k <= arena.length}

\* paging::init(&mut alloc_region): the arena is a bump source, advanced in place.
PagingInit ==
    /\ pc = "TopologyBuilt"
    /\ \E k \in PagingUse(Unwrap(alloc_region)) :
           alloc_region' = Some([base |-> Unwrap(alloc_region).base + k,
                                 length |-> Unwrap(alloc_region).length - k])
    /\ pc' = "PagingReady"
    /\ UNCHANGED <<boot, idx, archinfo, panic, ret_archinfo, kmain_arg, call, result>>

\* A plausible slip: segmentation is set up without waiting for paging.
SegmentationInitEarly ==
    /\ pc \in {"TopologyBuilt", "PagingReady"}
    /\ pc' = "SegmentationReady"
    /\ UNCHANGED <<boot, idx, archinfo, alloc_region, panic, ret_archinfo, kmain_arg,
                   call, result>>

\* segmentation::init()
SegmentationInit ==
    /\ pc = "PagingReady"
    /\ pc' = "SegmentationReady"
    /\ UNCHANGED <<boot, idx, archinfo, alloc_region, panic, ret_archinfo, kmain_arg,
                   call, result>>

\* interrupt::init()
InterruptInit ==
    /\ pc = "SegmentationReady"
    /\ pc' = "InterruptsReady"
    /\ UNCHANGED <<boot, idx, archinfo, alloc_region, panic, ret_archinfo, kmain_arg,
                   call, result>>

\* archinfo.push_free_region(alloc_region)
PushArena ==
    /\ pc = "InterruptsReady"
    /\ LET p == push_free_region(Unwrap(archinfo), Unwrap(alloc_region))
       IN  IF p.panic
           THEN /\ pc' = "Halted"
                /\ panic' = "bounds"
                /\ UNCHANGED archinfo
           ELSE /\ pc' = "ArenaPushed"
                /\ archinfo' = Some(p.self)
                /\ UNCHANGED panic
    /\ UNCHANGED <<boot, idx, alloc_region, ret_archinfo, kmain_arg, call, result>>

\* kmain(archinfo): the InitInfo is moved into the kernel's main phase.
Kmain ==
    /\ pc = "ArenaPushed"
    /\ kmain_arg' = archinfo
    /\ pc' = "HandedOff"
    /\ UNCHANGED <<boot, idx, archinfo, alloc_region, panic, ret_archinfo, call, result>>

BootNext ==
    \/ BootstrapEnter
    \/ BootstrapLoop
    \/ BootstrapReturn
    \/ PagingInit
    \/ SegmentationInit
    \/ InterruptInit
    \/ PushArena
    \/ Kmain

(***************************************************************************)
(* Inputs of the boot.                                                     *)
(***************************************************************************)
NoCall == [fn |-> "none"]

\* Every region inside the small address space, the empty ones included.
SmallRegions ==
    {MemoryRegionNew(b, l) : b \in 0..MaxAddr, l \in 0..(MaxAddr + 1)}
        \ {r \in [base : 0..MaxAddr, length : 0..(MaxAddr + 1)] :
                r.base + r.length > MaxAddr + 1}

SmallAreas ==
    {[base |-> r.base, length |-> r.length, type |-> "RAM"] : r \in SmallRegions}
        \cup {[base |-> 0, length |-> 1, type |-> "Reserved"]}

SmallMaps == UNION {[1..n -> SmallAreas] : n \in 0..MaxMapLen}

\* The region [start, end] (end inclusive) lies inside one RAM entry of the map.
InRam(map, start, end) ==
    \E i \in 1..Len(map) :
        /\ map[i].type = "RAM"
        /\ map[i].base <= start
        /\ end < map[i].base + map[i].length

\* The loader has put the kernel image and the first module into RAM that
\* the memory map reports.
LoaderOk(b) ==
    /\ InRam(b.map, b.kernel_start, b.kernel_end)
    /\ InRam(b.map, b.module_start, b.module_end)

\* The kernel image sits at the bottom of the address space and the first
\* module right above it or one address further up.
SmallBoots ==
    {b \in [kernel_start : 0..1, kernel_end : 0..2, module_start : 1..MaxAddr,
            module_end : 1..MaxAddr, map : SmallMaps] :
          /\ b.kernel_start <= b.kernel_end
          /\ b.kernel_end <= b.kernel_start + 1
          /\ b.kernel_end < b.module_start
          /\ b.module_start <= b.kernel_end + 2
          /\ b.module_start <= b.module_end
          /\ b.module_end <= b.module_start + 1
          /\ LoaderOk(b)}

BootInit(boots) ==
    /\ boot \in boots
    /\ pc = "Start"
    /\ idx = 0
    /\ archinfo = None
    /\ alloc_region = None
    /\ panic = "none"
    /\ ret_archinfo = None
    /\ kmain_arg = None
    /\ call = NoCall
    /\ result = None

Init == BootInit(SmallBoots)

Spec == Init /\ [][BootNext]_vars

(***************************************************************************)
(* Large memory maps at real addresses: the kernel at 1 MiB inside a       *)
(* 16 MiB RAM entry, the first module right above the kernel, and up to    *)
(* MaxFreeEntries further RAM entries that do not touch the kernel.        *)
(***************************************************************************)
KiB == 2^10
MiB == 2^20

KernelArea == [base |-> MiB, length |-> 16 * MiB, type |-> "RAM"]

\* The same span reported from address 0: the kernel is not at its bottom.
LowKernelArea == [base |-> 0, length |-> 17 * MiB, type |-> "RAM"]

FreeArea(i) == [base |-> 32 * MiB + (i - 1) * MiB, length |-> MiB, type |-> "RAM"]

\* n free entries, with the kernel's entry after the first p of them.
LargeMap(n, p, karea) ==
    [i \in 1..(n + 1) |->
        IF i <= p THEN FreeArea(i)
        ELSE IF i = p + 1 THEN karea
        ELSE FreeArea(i - 1)]

LargeBoots ==
    {[kernel_start |-> MiB, kernel_end |-> 3 * MiB - 1,
      module_start |-> 3 * MiB, module_end |-> 3 * MiB + 64 * KiB - 1,
      map |-> LargeMap(n, p, karea)] :
        n \in 0..MaxFreeEntries, p \in 0..MaxFreeEntries,
        karea \in {KernelArea, LowKernelArea}}

InitCap == BootInit({b \in LargeBoots : LoaderOk(b)})

SpecCap == InitCap /\ [][BootNext]_vars

(***************************************************************************)
(* Machine words as sets of bit positions.                                 *)
(***************************************************************************)
RECURSIVE BitsOf(_)
BitsOf(n) ==
    IF n = 0 THEN {}
    ELSE (IF n % 2 = 1 THEN {0} ELSE {}) \cup {b + 1 : b \in BitsOf(n \div 2)}

\* value << k in a word of the given width: bits shifted out are lost.
Shl(bits, k, width) == {b + k : b \in bits} \cap (0 .. (width - 1))

\* value >> k
Shr(bits, k) == {b - k : b \in {x \in bits : x >= k}}

(***************************************************************************)
(* SegmentSelector (u16).                                                  *)
(***************************************************************************)
RPL_0 == BitsOf(0)
RPL_1 == BitsOf(1)
RPL_2 == BitsOf(2)
RPL_3 == BitsOf(3)
TI_GDT == Shl(BitsOf(0), 3, 16)
TI_LDT == Shl(BitsOf(1), 3, 16)

\* bitflags' contains: (self.bits & flag.bits) == flag.bits
contains(self, flag) == flag \subseteq self

SegmentSelectorNew(index) == Shl(BitsOf(index), 3, 16)

SegmentSelectorFromRaw(bits) == BitsOf(bits)

(***************************************************************************)
(* SegmentDescriptor (u64).                                                *)
(***************************************************************************)
DESC_S == Shl(BitsOf(1), 32 + 12, 64)
DESC_DPL0 == Shl(BitsOf(0), 32 + 13, 64)
DESC_DPL1 == Shl(BitsOf(1), 32 + 13, 64)
DESC_DPL2 == Shl(BitsOf(2), 32 + 13, 64)
DESC_DPL3 == Shl(BitsOf(3), 32 + 13, 64)
DESC_P == Shl(BitsOf(1), 32 + 15, 64)
DESC_AVL == Shl(BitsOf(1), 32 + 20, 64)
DESC_L == Shl(BitsOf(1), 32 + 21, 64)
DESC_DB == Shl(BitsOf(1), 32 + 22, 64)
DESC_G == Shl(BitsOf(1), 32 + 23, 64)

\* The 4-bit type field, bits 40..43.
TYPE_SYS_LDT == Shl(BitsOf(2), 32 + 8, 64)
TYPE_SYS_TSS_AVAILABLE == Shl(BitsOf(9), 32 + 8, 64)
TYPE_SYS_TSS_BUSY == Shl(BitsOf(11), 32 + 8, 64)
TYPE_SYS_CALL_GATE == Shl(BitsOf(12), 32 + 8, 64)
TYPE_SYS_INTERRUPT_GATE == Shl(BitsOf(14), 32 + 8, 64)
TYPE_SYS_TRAP_GATE == Shl(BitsOf(15), 32 + 8, 64)
TYPE_D_RO == Shl(BitsOf(0), 32 + 8, 64)
TYPE_D_ROA == Shl(BitsOf(1), 32 + 8, 64)
TYPE_D_RW == Shl(BitsOf(2), 32 + 8, 64)
TYPE_D_RWA == Shl(BitsOf(3), 32 + 8, 64)
TYPE_D_ROEXD == Shl(BitsOf(4), 32 + 8, 64)
TYPE_D_ROEXDA == Shl(BitsOf(5), 32 + 8, 64)
TYPE_D_RWEXD == Shl(BitsOf(6), 32 + 8, 64)
TYPE_D_RWEXDA == Shl(BitsOf(7), 32 + 8, 64)
TYPE_C_EO == Shl(BitsOf(8), 32 + 8, 64)
TYPE_C_EOA == Shl(BitsOf(9), 32 + 8, 64)
TYPE_C_ER == Shl(BitsOf(10), 32 + 8, 64)
TYPE_C_ERA == Shl(BitsOf(11), 32 + 8, 64)
TYPE_C_EOC == Shl(BitsOf(12), 32 + 8, 64)
TYPE_C_EOCA == Shl(BitsOf(13), 32 + 8, 64)
TYPE_C_ERC == Shl(BitsOf(14), 32 + 8, 64)
TYPE_C_ERCA == Shl(BitsOf(15), 32 + 8, 64)

FlagConstants ==
    {DESC_S, DESC_DPL0, DESC_DPL1, DESC_DPL2, DESC_DPL3, DESC_P, DESC_AVL, DESC_L,
     DESC_DB, DESC_G,
     TYPE_SYS_LDT, TYPE_SYS_TSS_AVAILABLE, TYPE_SYS_TSS_BUSY, TYPE_SYS_CALL_GATE,
     TYPE_SYS_INTERRUPT_GATE, TYPE_SYS_TRAP_GATE, TYPE_D_RO, TYPE_D_ROA, TYPE_D_RW,
     TYPE_D_RWA, TYPE_D_ROEXD, TYPE_D_ROEXDA, TYPE_D_RWEXD, TYPE_D_RWEXDA, TYPE_C_EO,
     TYPE_C_EOA, TYPE_C_ER, TYPE_C_ERA, TYPE_C_EOC, TYPE_C_EOCA, TYPE_C_ERC,
     TYPE_C_ERCA}

\* A plausible slip: the high byte of the base is placed one bit too low.
SegmentDescriptorNewLowHigh(base, limit) ==
    LET base_low == base \cap (0..23)
        base_high == Shr(base, 24) \cap (0..7)
        limit_low == limit \cap (0..15)
        limit_high == Shr(limit \cap Shl(BitsOf(15), 16, 64), 16)
    IN  limit_low \cup Shl(base_low, 16, 64) \cup Shl(limit_high, 32 + 16, 64)
            \cup Shl(base_high, 32 + 23, 64)

SegmentDescriptorNew(base, limit) ==
    LET base_low == base \cap (0..23)
        base_high == Shr(base, 24) \cap (0..7)
        limit_low == limit \cap (0..15)
        limit_high == Shr(limit \cap Shl(BitsOf(15), 16, 64), 16)
    IN  limit_low \cup Shl(base_low, 16, 64) \cup Shl(limit_high, 32 + 16, 64)
            \cup Shl(base_high, 32 + 24, 64)

(***************************************************************************)
(* Calls of the pure operations.                                           *)
(***************************************************************************)
SkipCalls ==
    {[fn |-> "skip_up", self |-> r, exclusion |-> x] :
        r \in SmallRegions, x \in SmallRegions}

\* Every index a 13-bit index field can hold.
SelectorNewCalls == {[fn |-> "SegmentSelector::new", index |-> i] : i \in 0..(2^13 - 1)}

SelectorRawCalls == {[fn |-> "SegmentSelector::from_raw", bits |-> n] : n \in 0..63}

\* Bases 0x00000000, 0x00FFFFFF, 0xFFFFFFFF; limits 0x00000, 0x0FFFF,
\* 0xFFFFF; every OR of flag constants.
DescriptorCalls ==
    {[fn |-> "SegmentDescriptor::new", base |-> b, limit |-> l, flags |-> f] :
        b \in {{}, 0..23, 0..31}, l \in {{}, 0..15, 0..19},
        f \in SUBSET (UNION FlagConstants)}

CallSkipUp ==
    /\ call.fn = "skip_up"
    /\ result = None
    /\ result' = Some(skip_up(call.self, call.exclusion))
    /\ UNCHANGED <<bootVars, call>>

CallSelectorNew ==
    /\ call.fn = "SegmentSelector::new"
    /\ result = None
    /\ result' = Some(SegmentSelectorNew(call.index))
    /\ UNCHANGED <<bootVars, call>>

CallSelectorFromRaw ==
    /\ call.fn = "SegmentSelector::from_raw"
    /\ result = None
    /\ result' = Some(SegmentSelectorFromRaw(call.bits))
    /\ UNCHANGED <<bootVars, call>>

\* SegmentDescriptor::new(base, limit) | flags
CallDescriptorNew ==
    /\ call.fn = "SegmentDescriptor::new"
    /\ result = None
    /\ result' = Some(SegmentDescriptorNew(call.base, call.limit) \cup call.flags)
    /\ UNCHANGED <<bootVars, call>>

PureNext ==
    \/ CallSkipUp
    \/ CallSelectorNew
    \/ CallSelectorFromRaw
    \/ CallDescriptorNew

InitPure ==
    /\ boot = [kernel_start |-> 0, kernel_end |-> 0, module_start |-> 1,
               module_end |-> 1, map |-> <<>>]
    /\ pc = "Idle"
    /\ idx = 0
    /\ archinfo = None
    /\ alloc_region = None
    /\ panic = "none"
    /\ ret_archinfo = None
    /\ kmain_arg = None
    /\ call \in SkipCalls \cup SelectorNewCalls \cup SelectorRawCalls \cup DescriptorCalls
    /\ result = None

SpecPure == InitPure /\ [][PureNext]_vars

(***************************************************************************)
(* Properties of the pure operations (checked under SpecPure).             *)
(***************************************************************************)
\* C1: skip_up on a region R with exclusion X.  If X ends at or below
\* R.base it returns false and leaves R as it was.  If X is exactly
\* [R.base, R.base + k) with 0 < k < R.length it returns true and R becomes
\* {base: R.base + k, length: R.length - k}.  If X starts at or below R.base
\* and ends at or past the end of a non-empty R it returns true and the
\* length of R becomes 0.
SkipUpContract ==
    \A r \in result :
        call.fn = "skip_up" =>
            LET R == call.self
                X == call.exclusion
            IN  /\ X.base + X.length <= R.base
                      => r.ret = FALSE /\ r.self = R
                /\ (X.base = R.base /\ 0 < X.length /\ X.length < R.length)
                      => /\ r.ret = TRUE
                         /\ r.self = [base |-> R.base + X.length,
                                      length |-> R.length - X.length]
                /\ (/\ R.length > 0
                    /\ X.length > 0
                    /\ X.base <= R.base
                    /\ X.base + X.length >= R.base + R.length)
                      => r.ret = TRUE /\ r.self.length = 0

\* A call whose exclusion starts below the region and reaches past its end
\* has returned.
SkipUpWitness ==
    /\ call.fn = "skip_up"
    /\ result # None
    /\ call.self.length > 0
    /\ call.exclusion.base < call.self.base
    /\ call.exclusion.base + call.exclusion.length > call.self.base + call.self.length
    /\ Unwrap(result).ret = TRUE

\* Decoding a descriptor by its hardware bit ranges.
BaseBits == (16..39) \cup (56..63)
LimitBits == (0..15) \cup (48..51)
DecodeBase(d) == Shr(d \cap (16..39), 16) \cup Shl(Shr(d \cap (56..63), 56), 24, 32)
DecodeLimit(d) == (d \cap (0..15)) \cup Shl(Shr(d \cap (48..51), 48), 16, 32)
DecodeFlags(d) == d \ (BaseBits \cup LimitBits)

\* C5: for the bases 0x00000000, 0x00FFFFFF, 0xFFFFFFFF, the limits
\* 0x00000, 0x0FFFF, 0xFFFFF and every OR of flag constants, the value
\* SegmentDescriptor::new(base, limit) | flags decodes to exactly that base,
\* that limit and those flag bits, and no input bit is lost or shared.
DescriptorRoundTrip ==
    \A d \in result :
        call.fn = "SegmentDescriptor::new" =>
            /\ DecodeBase(d) = call.base
            /\ DecodeLimit(d) = call.limit
            /\ DecodeFlags(d) = call.flags
            /\ Cardinality(d) = Cardinality(call.base) + Cardinality(call.limit)
                                    + Cardinality(call.flags)

\* The descriptor with every base, limit and flag bit set has been built.
DescriptorWitness ==
    /\ call.fn = "SegmentDescriptor::new"
    /\ result # None
    /\ call.base = 0..31
    /\ call.limit = 0..19
    /\ call.flags = UNION FlagConstants
    /\ Unwrap(result) = 0..63

\* The fields of a selector: index in bits 3..15, privilege in bits 0..1.
SelectorIndex(sel) == Shr(sel, 3)
SelectorRpl(sel) == sel \cap (0..1)

\* C6: for every index i in 0..8191, SegmentSelector::new(i) has index
\* field i, privilege bits 00 and does not contain the TI_LDT flag; and
\* from_raw(0x002B) decodes to index 5, privilege 3.
SelectorEncoding ==
    \A sel \in result :
        /\ call.fn = "SegmentSelector::new" =>
              /\ SelectorIndex(sel) = BitsOf(call.index)
              /\ SelectorRpl(sel) = RPL_0
              /\ ~contains(sel, TI_LDT)
        /\ (call.fn = "SegmentSelector::from_raw" /\ call.bits = 43) =>
              /\ SelectorIndex(sel) = BitsOf(5)
              /\ SelectorRpl(sel) = RPL_3

(***************************************************************************)
(* Properties of the boot (checked under Spec and SpecCap).                *)
(***************************************************************************)
\* kinit holds the pair bootstrap_archinfo returned.
PostBuild ==
    {"TopologyBuilt", "PagingReady", "SegmentationReady", "InterruptsReady",
     "ArenaPushed", "HandedOff"}

\* The boot halted inside bootstrap_archinfo.
HaltedInBuild == pc = "Halted" /\ ret_archinfo = None

AreaRegion(area) == MemoryRegionNew(area.base, area.length)

RamEntries == {i \in 1..Len(boot.map) : boot.map[i].type = "RAM"}

\* C2: whenever bootstrap_archinfo returns normally, the addresses of the
\* returned free regions, the kernel region, the rinit region and the arena
\* together are exactly the addresses of the RAM entries of the map, and
\* these regions do not overlap one another.
TopologyCoverage ==
    pc = "TopologyBuilt" =>
        LET info == Unwrap(ret_archinfo)
            parts == free_regions_iter(info)
                        \o <<info.kernel_region, info.rinit_region, Unwrap(alloc_region)>>
        IN  /\ UNION {Addrs(parts[i]) : i \in 1..Len(parts)}
                  = UNION {Addrs(AreaRegion(boot.map[i])) : i \in RamEntries}
            /\ \A i, j \in 1..Len(parts) :
                  i # j => Addrs(parts[i]) \cap Addrs(parts[j]) = {}

\* C9: no region of length 0 is ever stored in the free-region list.
NoEmptyFreeRegion ==
    \A info \in archinfo :
        \A s \in Slots : \A r \in info.free_regions[s] : r.length > 0

\* Whether the kernel subtraction succeeds on an entry, and whether the rinit
\* subtraction succeeds on what the kernel subtraction left.
KernelHit(info, area) ==
    area.type = "RAM" /\ skip_up(AreaRegion(area), info.kernel_region).ret
RinitHit(info, area) ==
    skip_up(skip_up(AreaRegion(area), info.kernel_region).self, info.rinit_region).ret

\* C8: bootstrap_archinfo returns only if some RAM entry yielded an arena
\* and the rinit subtraction succeeded on every entry on which the kernel
\* subtraction succeeded.  An entry with a kernel hit and a rinit miss halts
\* the boot when it is reached, a map without any kernel hit halts it at
\* the return, and a halted boot never hands off.
BuildPreconditions ==
    \A info \in archinfo :
        LET map == boot.map
            bad(i) == KernelHit(info, map[i]) /\ ~RinitHit(info, map[i])
        IN  /\ pc \in PostBuild =>
                  /\ \E i \in 1..Len(map) : KernelHit(info, map[i])
                  /\ \A i \in 1..Len(map) : ~bad(i)
            /\ \A i \in 1..Len(map) : (i < idx => ~bad(i))
            /\ (pc = "Loop" /\ idx > Len(map)) =>
                  (alloc_region # None <=> \E i \in 1..Len(map) : KernelHit(info, map[i]))
            /\ (pc = "Halted" /\ panic = "assert") =>
                  (idx <= Len(map) /\ bad(idx) /\ ret_archinfo = None)
            /\ (pc = "Halted" /\ panic = "unwrap") =>
                  /\ \A i \in 1..Len(map) : ~KernelHit(info, map[i])
                  /\ ret_archinfo = None
            /\ pc = "Halted" => kmain_arg = None
            /\ kmain_arg # None => pc = "HandedOff"

\* The boot has halted on a kernel hit whose rinit subtraction failed.
BuildPreconditionsWitness ==
    /\ pc = "Halted"
    /\ panic = "assert"
    /\ KernelHit(Unwrap(archinfo), boot.map[idx])

\* The sequencer state a position of kinit belongs to.
Rank(p) ==
    CASE p \in {"Start", "Loop"} -> 0
      [] p = "TopologyBuilt" -> 1
      [] p = "PagingReady" -> 2
      [] p = "SegmentationReady" -> 3
      [] p \in {"InterruptsReady", "ArenaPushed"} -> 4
      [] p = "HandedOff" -> 5
      [] OTHER -> 6

\* C7: every step of kinit stays in its sequencer state, moves to the next
\* one or halts, so the states are passed in the order Start, TopologyBuilt,
\* PagingReady, SegmentationReady, InterruptsReady, HandedOff, each
\* transition at most once and none skipped; once the topology is built the
\* InitInfo changes only by the push of the arena, which happens in
\* InterruptsReady; the hand-off follows that push; and nothing happens
\* after HandedOff or after a halt.
SequencerOrder ==
    [][/\ pc \notin {"HandedOff", "Halted"}
       /\ \/ pc' = "Halted"
          \/ Rank(pc') = Rank(pc)
          \/ Rank(pc') = Rank(pc) + 1
       /\ (Rank(pc) >= 1 /\ archinfo' # archinfo) =>
              /\ pc = "InterruptsReady"
              /\ pc' = "ArenaPushed"
              /\ free_regions_iter(Unwrap(archinfo')) =
                    Append(free_regions_iter(Unwrap(archinfo)), Unwrap(alloc_region))
       /\ pc' = "ArenaPushed" => (pc = "InterruptsReady" /\ archinfo' # archinfo)
       /\ pc' = "HandedOff" => (pc = "ArenaPushed" /\ kmain_arg' = archinfo)
       /\ pc' = "Loop" => pc \in {"Start", "Loop"}
       /\ pc' = "Start" => pc = "Start"
       /\ pc' = "InterruptsReady" => pc = "SegmentationReady"
      ]_vars

\* The boot has run through to the hand-off.
SequencerWitness == pc = "HandedOff" /\ kmain_arg # None

\* The RAM entries among the first n of the map that the kernel subtraction
\* leaves alone, in the order of the map: the entries that are to be pushed.
RECURSIVE Eligible(_, _)
Eligible(info, n) ==
    IF n = 0 THEN <<>>
    ELSE LET area == boot.map[n]
         IN  IF area.type = "RAM" /\ ~KernelHit(info, area)
             THEN Append(Eligible(info, n - 1), AreaRegion(area))
             ELSE Eligible(info, n - 1)

\* C3: a map with at most 16 RAM entries beside the kernel's builds with all
\* of them recorded as free regions, in order; the build halts for want of
\* room only at the push of a 17th, with the 16 slots holding the first 16
\* and nothing written elsewhere; and a map with 17 or more never builds.
CapacityBoundary ==
    \A info \in archinfo :
        LET all == Eligible(info, Len(boot.map))
        IN  /\ info.free_regions_size <= FREE_REGIONS_LEN
            /\ DOMAIN info.free_regions = Slots
            /\ pc \in {"Loop", "TopologyBuilt"} =>
                  /\ idx - 1 <= Len(boot.map)
                  /\ free_regions_iter(info) = Eligible(info, idx - 1)
                  /\ info.free_regions_size = Len(Eligible(info, idx - 1))
            /\ pc = "TopologyBuilt" =>
                  /\ Len(all) <= FREE_REGIONS_LEN
                  /\ free_regions_iter(info) = all
            /\ (HaltedInBuild /\ panic = "bounds") =>
                  /\ Len(Eligible(info, idx)) = FREE_REGIONS_LEN + 1
                  /\ free_regions_iter(info) = Eligible(info, idx - 1)
                  /\ info.free_regions_size = FREE_REGIONS_LEN
            /\ (HaltedInBuild /\ Len(all) <= FREE_REGIONS_LEN) => panic # "bounds"
            /\ pc \in PostBuild => Len(Eligible(Unwrap(ret_archinfo), Len(boot.map)))
                                        <= FREE_REGIONS_LEN

\* The build has halted at the push of a 17th free region.
CapacityWitness ==
    /\ HaltedInBuild
    /\ panic = "bounds"
    /\ Unwrap(archinfo).free_regions_size = FREE_REGIONS_LEN
    /\ Len(Eligible(Unwrap(archinfo), Len(boot.map))) = FREE_REGIONS_LEN + 1

\* The end-to-end scenario: one RAM entry {0x100000, 0x1000000}, the kernel
\* at {0x100000, 0x200000} and the first module at {0x300000, 0x10000}.
EndToEndBoot ==
    [kernel_start |-> 1048576, kernel_end |-> 3145727,
     module_start |-> 3145728, module_end |-> 3211263,
     map |-> <<[base |-> 1048576, length |-> 16777216, type |-> "RAM"]>>]

\* What bootstrap_archinfo returns in the end-to-end scenario, but for the
\* length of the arena.
EndToEndInfo ==
    /\ pc # "Halted"
    /\ ret_archinfo # None
    /\ Unwrap(ret_archinfo).kernel_region = [base |-> 1048576, length |-> 2097152]
    /\ Unwrap(ret_archinfo).rinit_region = [base |-> 3145728, length |-> 65536]
    /\ Unwrap(ret_archinfo).free_regions_size = 0
    /\ free_regions_iter(Unwrap(ret_archinfo)) = <<>>

\* C4 as stated: in the end-to-end scenario bootstrap_archinfo returns the
\* arena {base: 0x310000, length: 0xCF0000} and an InitInfo with no
\* populated free-region slot.
EndToEndAsStated ==
    (boot = EndToEndBoot /\ pc \notin {"Start", "Loop"}) =>
        /\ EndToEndInfo
        /\ pc = "TopologyBuilt" =>
              alloc_region = Some([base |-> 3211264, length |-> 13565952])

\* C4 as amended: in the end-to-end scenario bootstrap_archinfo returns the
\* arena {base: 0x310000, length: 0xDF0000} (the 0x1000000 bytes of the entry
\* less the 0x200000 of the kernel and the 0x10000 of rinit) and an InitInfo
\* with the kernel region {0x100000, 0x200000}, the rinit region
\* {0x300000, 0x10000} and no populated free-region slot.
EndToEnd ==
    (boot = EndToEndBoot /\ pc \notin {"Start", "Loop"}) =>
        /\ EndToEndInfo
        /\ pc = "TopologyBuilt" =>
              alloc_region = Some([base |-> 3211264, length |-> 14614528])

\* The end-to-end scenario has been built.
EndToEndWitness ==
    /\ boot = EndToEndBoot
    /\ pc = "TopologyBuilt"
    /\ alloc_region # None

\* The free-region list of an InitInfo is well formed.
WellFormed(info) ==
    /\ info.free_regions_size \in 0..FREE_REGIONS_LEN
    /\ DOMAIN info.free_regions = Slots
    /\ \A s \in Slots : s < info.free_regions_size <=> info.free_regions[s] # None
    /\ \A s \in Slots : Cardinality(info.free_regions[s]) <= 1
    /\ Len(free_regions_iter(info)) = info.free_regions_size
    /\ \A s \in Slots : s < info.free_regions_size =>
            free_regions_iter(info)[s + 1] = Unwrap(info.free_regions[s])

\* C10: from InitInfo::new to the hand-off the free-region list is well
\* formed (count at most 16, exactly the slots below the count populated,
\* the iterator yielding them in order); every step leaves the InitInfo as
\* it is or appends one region at slot count; the kernel and rinit regions
\* never change; and the InitInfo handed to kmain is the one the build
\* returned followed by the arena as paging left it.
FreeListAppendOnly ==
    /\ [](\A info \in archinfo :
            /\ WellFormed(info)
            /\ info.kernel_region = MemoryRegionNew(
                    boot.kernel_start, boot.kernel_end + 1 - boot.kernel_start)
            /\ info.rinit_region = MemoryRegionNew(
                    boot.module_start, boot.module_end + 1 - boot.module_start))
    /\ [](\A arg \in kmain_arg :
            /\ WellFormed(arg)
            /\ arg.kernel_region = Unwrap(ret_archinfo).kernel_region
            /\ arg.rinit_region = Unwrap(ret_archinfo).rinit_region
            /\ free_regions_iter(arg) =
                  Append(free_regions_iter(Unwrap(ret_archinfo)), Unwrap(alloc_region)))
    /\ [][/\ archinfo # None => archinfo' # None
          /\ \A info \in archinfo : \A next \in archinfo' :
                \/ next = info
                \/ /\ info.free_regions_size \in Slots
                   /\ next.free_regions_size = info.free_regions_size + 1
                   /\ next.free_regions[info.free_regions_size] # None
                   /\ \A s \in Slots \ {info.free_regions_size} :
                          next.free_regions[s] = info.free_regions[s]
                   /\ next.kernel_region = info.kernel_region
                   /\ next.rinit_region = info.rinit_region
          /\ (pc \in PostBuild /\ pc # "TopologyBuilt") => alloc_region' = alloc_region
          /\ ret_archinfo # None => ret_archinfo' = ret_archinfo
         ]_vars

\* A full table has been handed to kmain: 15 entries of the map and the arena.
FreeListWitness ==
    /\ pc = "HandedOff"
    /\ kmain_arg # None
    /\ Unwrap(kmain_arg).free_regions_size = FREE_REGIONS_LEN
    /\ Unwrap(kmain_arg).free_regions[FREE_REGIONS_LEN - 1] = alloc_region

====
